---- MODULE Spec2Model ----
(***************************************************************************)
(* A model of the OLX apartment scraper: the cache store (CacheManager),   *)
(* the page walk (OLXClient.scrape_all_pages) and the orchestrator         *)
(* (ApartmentScraper.run).                                                 *)
(*                                                                         *)
(* Text is a sequence of one-character strings.  A Python value that may   *)
(* be a str or an int (the post_id after a trip through the CSV file) is a *)
(* record [t, s, n].  The CSV file is the sequence of its data rows, each  *)
(* cell holding the text pandas writes.                                    *)
(***************************************************************************)
EXTENDS Integers, Sequences, FiniteSets, TLC

\* ------------------------------------------------------------------ bounds
\* Listing pages the site has.
MaxPages == 2
\* Cards the site lists over one walk, all its pages together.
MaxCards == 3
\* Longest batch handed to save_apartments / find_new_apartments.
MaxBatch == 2
\* Longest explicit "cached_apartments" list handed to find_new_apartments.
MaxAgainst == 1
\* Wall-clock ticks (datetime.now() values) the model distinguishes.
MaxClock == 2
\* Largest max_retries a configuration gives the client.
MaxRetries == 4
\* Largest delay bound (min_delay, max_delay) a configuration gives, in ticks.
MaxDelay == 2
\* Cards on one listing page when the walk is followed request by request.
MaxTasks == 2

\* ------------------------------------------------------------ Python values
Digits == <<"0", "1", "2", "3", "4", "5", "6", "7", "8", "9">>

DigitSet == {Digits[i] : i \in 1..10}

DigitVal(c) == (CHOOSE i \in 1..10 : Digits[i] = c) - 1

PyStr(s) == [t |-> "str", s |-> s, n |-> 0]

PyInt(n) == [t |-> "int", s |-> <<>>, n |-> n]

\* float('nan'): what pandas yields for an empty cell.
NaN == "float:nan"

\* The card ids the listing pages carry (the id attribute of a card).
PostIds == {<<"7">>, <<"a">>}

\* pandas' integer inference for one cell: a non-empty run of digits.
IsNumeric(s) == Len(s) > 0 /\ \A i \in 1..Len(s) : s[i] \in DigitSet

RECURSIVE IntOf(_)
IntOf(s) == IF s = <<>> THEN 0
            ELSE IntOf(SubSeq(s, 1, Len(s) - 1)) * 10 + DigitVal(s[Len(s)])

RECURSIVE StrOf(_)
StrOf(n) == IF n < 10 THEN <<Digits[n + 1]>>
            ELSE StrOf(n \div 10) \o <<Digits[(n % 10) + 1]>>

\* str(value) as DataFrame.to_csv writes a post_id cell.
CellText(v) == IF v.t = "int" THEN StrOf(v.n) ELSE v.s

\* None, a float, float('nan'), a bool: the values an optional field of an
\* Apartment can hold before and after a trip through the CSV file.
PyNone == [t |-> "NoneType", s |-> <<>>, n |-> 0]

PyFloat(n) == [t |-> "float", s |-> <<>>, n |-> n]

PyNaN == [t |-> "float", s |-> <<"n", "a", "n">>, n |-> 0]

PyBool(b) == [t |-> "bool", s |-> <<>>, n |-> IF b THEN 1 ELSE 0]

\* json.dumps of a non-empty list of one-character strings: ["p", "q"].
RECURSIVE JsonItems(_)
JsonItems(l) ==
    IF Len(l) = 1 THEN <<"\"", l[1], "\"">>
    ELSE <<"\"", l[1], "\"", ",", " ">> \o JsonItems(Tail(l))

JsonDumps(l) == <<"[">> \o (IF l = <<>> THEN <<>> ELSE JsonItems(l)) \o <<"]">>

\* str([]) as the CSV writer renders an empty list left in a cell.
EmptyListRepr == <<"[", "]">>

\* json.loads on the text of a cell: ok is FALSE where it raises JSONDecodeError.
JsonError == [ok |-> FALSE, v |-> <<>>]

RECURSIVE JsonLoadItems(_)
JsonLoadItems(b) ==
    IF Len(b) >= 3 /\ b[1] = "\"" /\ b[3] = "\"" /\ b[2] \notin {"\"", "\\"}
    THEN IF Len(b) = 3 THEN [ok |-> TRUE, v |-> <<b[2]>>]
         ELSE IF Len(b) >= 5 /\ b[4] = "," /\ b[5] = " "
              THEN LET rest == JsonLoadItems(SubSeq(b, 6, Len(b)))
                   IN  IF rest.ok THEN [ok |-> TRUE, v |-> <<b[2]>> \o rest.v]
                       ELSE JsonError
              ELSE JsonError
    ELSE JsonError

JsonLoads(text) ==
    IF Len(text) >= 2 /\ text[1] = "[" /\ text[Len(text)] = "]"
    THEN IF Len(text) = 2 THEN [ok |-> TRUE, v |-> <<>>]
         ELSE JsonLoadItems(SubSeq(text, 2, Len(text) - 1))
    ELSE JsonError

\* ------------------------------------------------------------------ models
\* The columns of an Apartment the model follows: tags are handled as photos
\* are, total_floors and rooms as floor is.
\* Apartment.to_dict: a non-empty list becomes its JSON text, an empty list is
\* left as it is (and reaches the file as str([])).
to_dict(apt) ==
    [post_id     |-> apt.post_id,
     description |-> apt.description,
     photos      |-> IF apt.photos # <<>> THEN JsonDumps(apt.photos) ELSE EmptyListRepr,
     floor       |-> apt.floor,
     watch_count |-> apt.watch_count,
     furnished   |-> apt.furnished,
     scraped_at  |-> apt.scraped_at]

\* Apartment.from_dict on one row of the DataFrame: a str in photos goes
\* through json.loads, [] where that raises; every other value is taken as is.
from_dict(data) ==
    [data EXCEPT !.photos = IF JsonLoads(@).ok THEN JsonLoads(@).v ELSE <<>>]

\* ------------------------------------------------------------------- cache
\* A number column of pd.DataFrame(data): int64 when every value is an int,
\* else float64 (None becomes nan).  to_csv writes an int as 5, a float as 5.0
\* and a missing value as the empty cell.
IsNumber(v) == v.t = "int" \/ (v.t = "float" /\ v # PyNaN)

NumberCell(v, all_int) ==
    IF ~IsNumber(v) THEN <<>>
    ELSE IF all_int THEN StrOf(v.n) ELSE StrOf(v.n) \o <<".", "0">>

\* DataFrame(data).to_csv(index=False): the data rows of the file.
to_csv(data) ==
    LET all_int(col) == \A i \in 1..Len(data) : col[i].t = "int"
        floors  == [i \in 1..Len(data) |-> data[i].floor]
        watches == [i \in 1..Len(data) |-> data[i].watch_count]
    IN  [i \in 1..Len(data) |->
            [post_id     |-> CellText(data[i].post_id),
             description |-> IF data[i].description = NaN THEN "" ELSE data[i].description,
             photos      |-> data[i].photos,
             floor       |-> NumberCell(data[i].floor, all_int(floors)),
             watch_count |-> NumberCell(data[i].watch_count, all_int(watches)),
             furnished   |-> IF data[i].furnished.t = "bool"
                             THEN (IF data[i].furnished.n = 1 THEN "True" ELSE "False")
                             ELSE "",
             scraped_at  |-> data[i].scraped_at]]

\* The float a cell like 5.0 or 5 stands for.
IsFloatText(s) ==
    /\ Len(s) >= 3 /\ s[Len(s) - 1] = "." /\ s[Len(s)] = "0"
    /\ IsNumeric(SubSeq(s, 1, Len(s) - 2))

NumberOf(s) == IF IsFloatText(s) THEN IntOf(SubSeq(s, 1, Len(s) - 2)) ELSE IntOf(s)

\* pd.read_csv and row.to_dict(): the dtype of a column is inferred from all of
\* its cells.  A column of digit runs is int64; an empty cell is nan and makes
\* a number column float64; a column of True/False with empty cells holds bools
\* and nan.
read_csv(rows) ==
    LET numeric(col) == \A i \in 1..Len(rows) : IsNumeric(col[i])
        ids     == [i \in 1..Len(rows) |-> rows[i].post_id]
        floors  == [i \in 1..Len(rows) |-> rows[i].floor]
        watches == [i \in 1..Len(rows) |-> rows[i].watch_count]
        number(cell, all_int) ==
            IF all_int THEN PyInt(IntOf(cell))
            ELSE IF cell = <<>> THEN PyNaN ELSE PyFloat(NumberOf(cell))
    IN  [i \in 1..Len(rows) |->
            [post_id     |-> IF numeric(ids) THEN PyInt(IntOf(rows[i].post_id))
                             ELSE PyStr(rows[i].post_id),
             description |-> IF rows[i].description = "" THEN NaN ELSE rows[i].description,
             photos      |-> rows[i].photos,
             floor       |-> number(rows[i].floor, numeric(floors)),
             watch_count |-> number(rows[i].watch_count, numeric(watches)),
             furnished   |-> IF rows[i].furnished = "" THEN PyNaN
                             ELSE PyBool(rows[i].furnished = "True"),
             scraped_at  |-> rows[i].scraped_at]]

\* A load that hands back whatever rows it could read when the read failed.
load_cached_apartments_partial(file, read_ok) ==
    LET df == read_csv(file) IN [i \in 1..Len(df) |-> from_dict(df[i])]

\* CacheManager.load_cached_apartments; read_ok = FALSE is a read or parse
\* error, which the method catches.
load_cached_apartments(file, read_ok) ==
    IF read_ok
    THEN LET df == read_csv(file) IN [i \in 1..Len(df) |-> from_dict(df[i])]
    ELSE <<>>

\* CacheManager._write_apartments when the write completes.
write_apartments(apartments) ==
    to_csv([i \in 1..Len(apartments) |-> to_dict(apartments[i])])

\* existing_dict[apt.post_id] = apt on an insertion-ordered dict, kept as the
\* sequence of its values.
DictPut(d, apt) ==
    IF \E i \in 1..Len(d) : d[i].post_id = apt.post_id
    THEN LET i == CHOOSE j \in 1..Len(d) : d[j].post_id = apt.post_id
         IN  [d EXCEPT ![i] = apt]
    ELSE Append(d, apt)

RECURSIVE DictOf(_)
DictOf(apartments) ==
    IF apartments = <<>> THEN <<>>
    ELSE DictPut(DictOf(SubSeq(apartments, 1, Len(apartments) - 1)),
                 apartments[Len(apartments)])

RECURSIVE DictUpdate(_, _)
DictUpdate(d, apartments) ==
    IF apartments = <<>> THEN d
    ELSE DictUpdate(DictPut(d, apartments[1]), Tail(apartments))

\* A save that merges into the existing cache whatever the append flag says.
merged_apartments_always(file, apartments, append, read_ok) ==
    DictUpdate(DictOf(load_cached_apartments(file, read_ok)), apartments)

\* The list save_apartments hands to _write_apartments.
merged_apartments(file, apartments, append, read_ok) ==
    IF append
    THEN DictUpdate(DictOf(load_cached_apartments(file, read_ok)), apartments)
    ELSE apartments

\* What an interrupted or failed to_csv leaves behind: the file was opened
\* for writing (truncated) and a proper prefix of the rows reached the disk.
TruncatedFiles(rows) == {SubSeq(rows, 1, k) : k \in 0..(Len(rows) - 1)}

WriteOutcomes == {"ok", "open_error", "write_error"}

\* CacheManager.save_apartments: the files it can leave behind.
save_apartments(file, apartments, append, read_ok, write) ==
    IF apartments = <<>> THEN {file}
    ELSE LET rows == write_apartments(merged_apartments(file, apartments, append, read_ok))
         IN  CASE write = "ok"          -> {rows}
               [] write = "open_error"  -> {file}
               [] write = "write_error" -> TruncatedFiles(rows)

\* A diff that compares whole records instead of their post_id.
find_new_apartments_by_content(current_apartments, cached_apartments) ==
    LET cached == {cached_apartments[i] : i \in 1..Len(cached_apartments)}
        IsNew(apt) == apt \notin cached
    IN  SelectSeq(current_apartments, IsNew)

\* CacheManager.find_new_apartments with cached_apartments given.
find_new_apartments(current_apartments, cached_apartments) ==
    LET cached_ids == {cached_apartments[i].post_id : i \in 1..Len(cached_apartments)}
        IsNew(apt) == apt.post_id \notin cached_ids
    IN  SelectSeq(current_apartments, IsNew)

\* ------------------------------------------------------------------- state
VARIABLES
    cache_file,       \* the rows of the CSV file at cache_path
    writer,           \* a to_csv in progress on cache_path
    call,             \* the last call made on the CacheManager, with its result
    now,              \* the wall clock, in ticks
    pc,               \* where ApartmentScraper.run stands
    save_new_only,    \* arguments of the run in progress
    enrich_data,
    max_pages,
    snapshot,         \* cache_file as it stood when the run (or the call) started
    current_url,      \* scrape_all_pages: its locals
    page_count,
    all_apartments,
    html,             \* scrape_listing_page: the fetched page
    tasks,            \*   the enrichment tasks handed to asyncio.gather
    completed,        \*   the order in which they completed
    walked,           \* the pages scrape_listing_page returned for, in order
    error_at,         \* the page whose exception ended the walk
    result,           \* what run returned
    config,           \* OLXClient: min_delay, max_delay, max_retries
    fetch_phones,     \* argument of the run in progress
    requests          \* the fetches in progress: sleeping or on the network

vars == <<cache_file, writer, call, now, pc, save_new_only, enrich_data,
          max_pages, snapshot, current_url, page_count, all_apartments, html,
          tasks, completed, walked, error_at, result, config, fetch_phones,
          requests>>

\* The arguments of a run and what it fixes at its start.
runArgs == <<now, save_new_only, enrich_data, max_pages, snapshot>>

\* The locals of scrape_all_pages.
walkVars == <<current_url, page_count, all_apartments, walked, error_at>>

\* The locals of scrape_listing_page.
pageVars == <<html, tasks, completed>>

\* The client's configuration and its fetches in progress.
netVars == <<config, fetch_phones, requests>>

runVars == <<pc, runArgs, walkVars, pageVars, result, netVars>>

\* ScraperConfig.from_env without an environment: MIN_DELAY 1, MAX_DELAY 3,
\* MAX_RETRIES 3.
DefaultConfig == [min_delay |-> 1, max_delay |-> 3, max_retries |-> 3]

None == 0

NoCall == [op |-> "none", apartments |-> <<>>, append |-> FALSE, read_ok |-> TRUE,
           write |-> "ok", given |-> FALSE, cached |-> <<>>, out |-> <<>>,
           attempts |-> 0, error |-> "none", raised |-> FALSE, args |-> <<>>]

\* An element the markup does not have, where the code looks for its text.
NoElement == <<"<", ">">>

\* The pagination block of a listing page, by what extract_pagination_info
\* looks for: the wrapper, the text of the active page item and of the last
\* page item (NoElement when absent) and the page the forward link leads to
\* (None without the link or its href).
Pagination(wrapper, active, last, forward) ==
    [wrapper |-> wrapper, active |-> active, last |-> last, forward |-> forward]

NoPagination == Pagination(FALSE, NoElement, NoElement, None)

NoPage == [cards |-> <<>>, pagination |-> NoPagination]

NoWriter == [state |-> "idle", rows |-> <<>>, written |-> 0]

\* No run has started.
Idle ==
    /\ writer = NoWriter
    /\ call = NoCall
    /\ now = 1
    /\ pc = "idle"
    /\ save_new_only = FALSE
    /\ enrich_data = FALSE
    /\ max_pages = None
    /\ current_url = None
    /\ page_count = 0
    /\ all_apartments = <<>>
    /\ html = NoPage
    /\ tasks = <<>>
    /\ completed = <<>>
    /\ walked = <<>>
    /\ error_at = None
    /\ result = <<>>
    /\ fetch_phones = FALSE
    /\ requests = {}

\* CacheManager.__init__ has run: _ensure_cache_exists wrote the header-only
\* file.
Init ==
    /\ cache_file = <<>>
    /\ snapshot = <<>>
    /\ config = DefaultConfig
    /\ Idle

\* ---------------------------------------------------------------- the walk
\* int(text) on the text of a page item: the number, or ValueError.
int(text) == IF text # NoElement /\ IsNumeric(text) THEN [ok |-> TRUE, v |-> IntOf(text)]
             ELSE [ok |-> FALSE, v |-> 0]

\* A reading of the pagination that takes the page for the last one only when
\* the block is missing, and else expects the page after it.
extract_pagination_info_expecting_next(pagination) ==
    IF ~pagination.wrapper
    THEN [current_page |-> 1, total_pages |-> 1, next_page_url |-> None]
    ELSE [current_page  |-> 1, total_pages |-> 1,
          next_page_url |-> IF pagination.forward # None THEN pagination.forward
                            ELSE IF int(pagination.active).ok /\ int(pagination.active).v < MaxPages
                                 THEN int(pagination.active).v + 1 ELSE None]

\* extract_pagination_info: the defaults, then what the block overrides.
extract_pagination_info(pagination) ==
    IF ~pagination.wrapper
    THEN [current_page |-> 1, total_pages |-> 1, next_page_url |-> None]
    ELSE [current_page  |-> IF pagination.active # NoElement /\ int(pagination.active).ok
                            THEN int(pagination.active).v ELSE 1,
          total_pages   |-> IF pagination.last # NoElement /\ int(pagination.last).ok
                            THEN int(pagination.last).v ELSE 1,
          next_page_url |-> pagination.forward]

\* Listing URLs are page numbers.  The pagination blocks the page at url can
\* carry on a site: none at all ("none"); the numbered items with a forward
\* link to the next page ("forward") or without one ("last"); items whose
\* text is no number, without a forward link ("unnumbered"); the numbered
\* items with a forward link to the page itself or to an earlier one ("back").
Paginations(url, site) ==
    (IF "none" \in site.blocks THEN {NoPagination} ELSE {})
    \cup (IF "forward" \in site.blocks /\ url < MaxPages
          THEN {Pagination(TRUE, StrOf(url), StrOf(MaxPages), url + 1)} ELSE {})
    \cup (IF "last" \in site.blocks
          THEN {Pagination(TRUE, StrOf(url), StrOf(url), None)} ELSE {})
    \cup (IF "unnumbered" \in site.blocks
          THEN {Pagination(TRUE, <<"w">>, NoElement, None)} ELSE {})
    \cup (IF "back" \in site.blocks
          THEN {Pagination(TRUE, StrOf(url), StrOf(MaxPages), b) : b \in 1..url}
          ELSE {})

\* The cards a listing page can carry, by their id attribute, when the pages
\* before it carried "seen" cards, on a site whose pages carry at most
\* site.cards cards with ids of site.ids.
Listings(seen, site) ==
    UNION {[1..k -> site.ids] :
              k \in 0..(IF MaxCards - seen < site.cards THEN MaxCards - seen
                        ELSE site.cards)}

\* _parse_card and Apartment(**data): the partial record of one card.
parse_card(post_id, tick) ==
    [post_id     |-> PyStr(post_id),
     description |-> "",
     photos      |-> <<>>,
     floor       |-> PyNone,
     watch_count |-> PyNone,
     furnished   |-> PyNone,
     scraped_at  |-> tick]

\* parse_listing_page: one record per card, in card order.
parse_listing_page(cards, tick) ==
    [i \in 1..Len(cards) |-> parse_card(cards[i], tick)]

\* A detail page, by what the selectors of fetch_detail_page_data find on it:
\* the description text ("" without the element), the image sources, the floor
\* (None when not listed), the furnishing parameter, the view-count span and
\* the text in it.
Page(description, photos, floor, furnished, watch_span, watch_text) ==
    [description |-> description, photos |-> photos, floor |-> floor,
     furnished |-> furnished, watch_span |-> watch_span, watch_text |-> watch_text]

\* The detail page the site serves during a walk: the view count is loaded by
\* script and is not in the markup.
DetailPage == Page("d", <<"p">>, 5, "yes", FALSE, <<>>)

\* fetch_detail_page_data: the dict of the fields found, {} when the fetch or
\* the extraction raised.  photos is always set; watch_count is set to None
\* when the span is missing.
fetch_detail_page_data(page, fetch_ok) ==
    [keys |-> IF ~fetch_ok THEN {}
              ELSE {"photos"}
                   \cup (IF page.description # "" THEN {"description"} ELSE {})
                   \cup (IF page.floor # None THEN {"floor"} ELSE {})
                   \cup (IF page.furnished # "absent" THEN {"furnished"} ELSE {})
                   \cup (IF ~page.watch_span \/ page.watch_text # <<>>
                         THEN {"watch_count"} ELSE {}),
     description |-> page.description,
     photos      |-> page.photos,
     floor       |-> PyInt(page.floor),
     furnished   |-> PyBool(page.furnished = "yes"),
     watch_count |-> IF page.watch_span THEN PyInt(IntOf(page.watch_text)) ELSE PyNone]

\* An enrichment that hands back a blank record when the detail fetch failed.
enrich_apartment_data_or_blank(apt, page, detail_ok) ==
    IF detail_ok THEN [apt EXCEPT !.description = page.description]
    ELSE [apt EXCEPT !.post_id = PyStr(<<>>)]

\* enrich_apartment_data: every key of detail_data overwrites the field of the
\* apartment; a failed detail fetch returns {} and leaves the record as it was.
enrich_apartment_data(apt, page, detail_ok) ==
    LET detail_data == fetch_detail_page_data(page, detail_ok)
        Updated(key) == IF key \in detail_data.keys THEN detail_data[key] ELSE apt[key]
    IN  [post_id     |-> apt.post_id,
         description |-> Updated("description"),
         photos      |-> Updated("photos"),
         floor       |-> Updated("floor"),
         watch_count |-> Updated("watch_count"),
         furnished   |-> Updated("furnished"),
         scraped_at  |-> apt.scraped_at]

\* A gather that hands the results back in the order the tasks completed.
gather_as_completed(ts, order) == [k \in 1..Len(order) |-> ts[order[k]].apt]

\* asyncio.gather: the results in the order of the awaitables.
gather(ts, order) == [i \in 1..Len(ts) |-> ts[i].apt]

\* A join that returns as soon as one awaitable has finished.
gather_done_first(ts) == \E i \in 1..Len(ts) : ts[i].done

\* await asyncio.gather(*enrichment_tasks) returns when every task has finished.
gather_done(ts) == \A i \in 1..Len(ts) : ts[i].done

\* An except branch that throws away what the earlier pages gave.
after_page_error_discard(apartments) == <<>>

\* scrape_all_pages, the except branch: the error is logged, the loop ends
\* and the list accumulated so far is what the walk returns.
after_page_error(apartments) == apartments

\* The surroundings of a run: the outcomes the file system can give the reads
\* and writes of the cache, and the listing pages the site serves.
Healthy == [reads |-> {TRUE}, writes |-> {"ok"}, cards |-> MaxCards, ids |-> PostIds,
            blocks |-> {"none", "forward"}]

Faulty == [reads |-> BOOLEAN, writes |-> WriteOutcomes, cards |-> MaxCards,
           ids |-> PostIds, blocks |-> {"none", "forward"}]

\* A healthy file system and a site with short listing pages.
ShortPages == [reads |-> {TRUE}, writes |-> {"ok"}, cards |-> MaxTasks,
               ids |-> {<<"a">>}, blocks |-> {"none", "forward"}]

\* ApartmentScraper.run is called: its arguments are fixed, the client is
\* entered and scrape_all_pages begins.
BeginRun ==
    /\ pc \in {"idle", "returned"}
    /\ pc = "returned" => now < MaxClock
    /\ now' = IF pc = "returned" THEN now + 1 ELSE now
    /\ save_new_only' \in BOOLEAN
    /\ enrich_data' \in BOOLEAN
    /\ max_pages' \in 0..MaxPages
    /\ snapshot' = cache_file
    /\ current_url' = 1
    /\ page_count' = 1
    /\ all_apartments' = <<>>
    /\ walked' = <<>>
    /\ error_at' = None
    /\ result' = <<>>
    /\ pc' = "fetching"
    /\ call' = NoCall
    /\ completed' = <<>>
    /\ UNCHANGED <<cache_file, writer, html, tasks>>

\* ApartmentScraper.run is called.
StartRun == BeginRun /\ UNCHANGED netVars

\* A walker that calls the callback for every page, also for one without
\* records.
callback_called_for_every_page(page_callback, apartments) == page_callback

\* "if page_callback and apartments": the callback is called for a page that
\* has records.
callback_called(page_callback, apartments) == page_callback /\ apartments # <<>>

\* scrape_all_pages from the return of scrape_listing_page to the next fetch:
\* extend, the save_page_callback, the advance and the loop test.
PageDone(cards, details, apartments, pagination, env) ==
    LET next_url == extract_pagination_info(pagination).next_page_url IN
    /\ all_apartments' = all_apartments \o apartments
    /\ walked' = Append(walked, [url |-> current_url, cards |-> cards,
                                 details |-> details, pagination |-> pagination])
    /\ IF ~callback_called(TRUE, apartments)
       THEN UNCHANGED <<cache_file, call>>
       ELSE \E read_ok \in env.reads, write \in env.writes :
            \E file \in save_apartments(cache_file, apartments, TRUE, read_ok, write) :
               /\ cache_file' = file
               /\ call' = [NoCall EXCEPT !.op = "save", !.apartments = apartments,
                                         !.append = TRUE, !.read_ok = read_ok,
                                         !.write = write]
    /\ current_url' = next_url
    /\ page_count' = IF next_url = None THEN page_count ELSE page_count + 1
    /\ pc' = IF next_url # None /\ ~(max_pages # 0 /\ page_count + 1 > max_pages)
             THEN "fetching" ELSE "walked"
    /\ UNCHANGED error_at

\* scrape_listing_page once fetch_page returned the markup: the page is
\* parsed and either its enrichment tasks are created or the page is complete.
ScrapeListingPage(env) ==
    /\ pc = "fetching"
    /\ \E cards \in Listings(Len(all_apartments), env),
          pagination \in Paginations(current_url, env) :
       LET apartments == parse_listing_page(cards, now)
       IN  IF enrich_data /\ apartments # <<>>
           THEN /\ tasks' = [i \in 1..Len(apartments) |->
                                [apt |-> apartments[i], done |-> FALSE, ok |-> FALSE]]
                /\ completed' = <<>>
                /\ html' = [cards |-> cards, pagination |-> pagination]
                /\ pc' = "enriching"
                /\ UNCHANGED <<cache_file, call, walkVars>>
           ELSE /\ PageDone(cards, [i \in 1..Len(cards) |-> FALSE], apartments,
                            pagination, env)
                /\ completed' = <<>>
                /\ UNCHANGED <<html, tasks>>
    /\ UNCHANGED <<writer, runArgs, result>>

\* scrape_listing_page: the listing page arrives and is parsed.
FetchPage(env) == ScrapeListingPage(env) /\ UNCHANGED netVars

\* scrape_all_pages, except Exception: the error is logged and the loop ends.
BreakOnError ==
    /\ pc = "fetching"
    /\ pc' = "walked"
    /\ error_at' = current_url
    /\ all_apartments' = after_page_error(all_apartments)
    /\ UNCHANGED <<cache_file, writer, call, runArgs, current_url, page_count,
                   walked, pageVars, result>>

\* scrape_all_pages: fetch_page ran out of retries, or the parse of the page
\* raised; the except branch ends the loop.
PageError == BreakOnError /\ UNCHANGED netVars

\* One enrichment task of the page runs to its end.
EnrichTask ==
    /\ pc = "enriching"
    /\ \E i \in 1..Len(tasks), detail_ok \in BOOLEAN :
        /\ ~tasks[i].done
        /\ tasks' = [tasks EXCEPT ![i] =
                        [apt  |-> enrich_apartment_data(tasks[i].apt, DetailPage, detail_ok),
                         done |-> TRUE,
                         ok   |-> detail_ok]]
        /\ completed' = Append(completed, i)
    /\ UNCHANGED <<cache_file, writer, call, pc, runArgs, walkVars, html, result,
                   netVars>>

\* asyncio.gather returns; the pagination is read; the page is complete.
Gather(env) ==
    /\ pc = "enriching"
    /\ gather_done(tasks)
    /\ PageDone(html.cards, [i \in 1..Len(tasks) |-> tasks[i].ok],
                gather(tasks, completed), html.pagination, env)
    /\ html' = NoPage
    /\ tasks' = <<>>
    /\ UNCHANGED <<writer, runArgs, completed, result, netVars>>

\* extract_pagination_info raises after the gather: the except branch ends
\* the loop and the page's records are not appended.
PaginationError ==
    /\ pc = "enriching"
    /\ gather_done(tasks)
    /\ pc' = "walked"
    /\ error_at' = current_url
    /\ all_apartments' = after_page_error(all_apartments)
    /\ html' = NoPage
    /\ tasks' = <<>>
    /\ completed' = <<>>
    /\ UNCHANGED <<cache_file, writer, call, runArgs, current_url, page_count,
                   walked, result, netVars>>

\* ApartmentScraper.run after the walk: "Process results".
ProcessResults(env) ==
    /\ pc = "walked"
    /\ pc' = "returned"
    /\ IF save_new_only
       THEN \E read_ok \in env.reads :
            LET new_apartments ==
                    find_new_apartments(all_apartments,
                                        load_cached_apartments(cache_file, read_ok))
            IN  /\ result' = new_apartments
                /\ call' = [NoCall EXCEPT !.op = "find_new",
                                          !.apartments = all_apartments,
                                          !.read_ok = read_ok,
                                          !.out = new_apartments]
       ELSE /\ result' = all_apartments
            /\ UNCHANGED call
    /\ UNCHANGED <<cache_file, writer, runArgs, walkVars, pageVars, netVars>>

\* Successive runs on one store whose file reads and writes succeed.
Next ==
    \/ StartRun
    \/ FetchPage(Healthy)
    \/ PageError
    \/ EnrichTask
    \/ Gather(Healthy)
    \/ PaginationError
    \/ ProcessResults(Healthy)

Spec == Init /\ [][Next]_vars

\* One walk on a fresh store, scrape_all_pages from its call to its return,
\* with a file whose reads and writes can fail.
StartWalk == pc = "idle" /\ StartRun /\ save_new_only' = FALSE

NextWalk ==
    \/ StartWalk
    \/ FetchPage(Faulty)
    \/ PageError
    \/ EnrichTask
    \/ Gather(Faulty)
    \/ PaginationError

SpecWalk == Init /\ [][NextWalk]_vars

\* ------------------------------------------------------ the walk, interrupted
\* Ctrl-C (KeyboardInterrupt, or the cancellation asyncio.run turns it into)
\* or a kill reaches the walk while it awaits a fetch or the gather: neither is
\* an Exception, no except branch of the walk catches it, the walk is over.
InterruptWalk ==
    /\ pc \in {"fetching", "enriching"}
    /\ pc' = "interrupted"
    /\ UNCHANGED <<cache_file, writer, call, runArgs, walkVars, pageVars, result,
                   netVars>>

\* The records of the page the walk is about to hand to the callback.
PageInHand ==
    IF pc = "enriching"
    THEN IF gather_done(tasks) THEN {gather(tasks, completed)} ELSE {}
    ELSE IF pc = "fetching" /\ ~enrich_data
         THEN {parse_listing_page(cards, now) :
                  cards \in Listings(Len(all_apartments), Healthy)}
         ELSE {}

\* The interrupt arrives inside save_page_callback, while to_csv writes the
\* merged list onto cache_path.
InterruptSave ==
    /\ \E apartments \in PageInHand \ {<<>>} :
        /\ all_apartments' = all_apartments \o apartments
        /\ \E file \in TruncatedFiles(write_apartments(
                          merged_apartments(cache_file, apartments, TRUE, TRUE))) :
              cache_file' = file
        /\ call' = [NoCall EXCEPT !.op = "save", !.apartments = apartments,
                                  !.append = TRUE, !.write = "interrupted"]
    /\ pc' = "interrupted"
    /\ UNCHANGED <<writer, runArgs, current_url, page_count, walked, error_at,
                   pageVars, result, netVars>>

\* One walk on a healthy file system that an interrupt can end.
NextInterrupt ==
    \/ StartWalk
    \/ FetchPage(Healthy)
    \/ PageError
    \/ EnrichTask
    \/ Gather(Healthy)
    \/ PaginationError
    \/ InterruptWalk
    \/ InterruptSave

SpecInterrupt == Init /\ [][NextInterrupt]_vars

\* ------------------------------------------------- the walk, request by request
\* stop_after_attempt(3) on fetch_page.
StopAfterAttempt == 3

\* What one attempt of session.get can raise: asyncio.TimeoutError,
\* aiohttp.ClientResponseError (raise_for_status on a 404), aiohttp.InvalidURL
\* (a malformed URL), UnicodeDecodeError (response.text()).
Errors == {"timeout", "http_404", "invalid_url", "decode"}

\* retry_if_exception_type((aiohttp.ClientError, asyncio.TimeoutError)):
\* ClientResponseError and InvalidURL are subclasses of ClientError.
RetriedErrors == {"timeout", "http_404", "invalid_url"}

\* random.uniform(self.min_delay, self.max_delay): a value between the two,
\* whichever is larger.
uniform(a, b) == IF a <= b THEN a..b ELSE b..a

\* A fetch in progress.  In phase "delay" it is in the backoff that follows the
\* error "retrying" (if any) and then in _delay; in phase "get" its request is
\* on the network and slept is the _delay that preceded it, None when it had
\* none.
Request(page, kind, card, attempt, phase, slept, retrying) ==
    [page |-> page, kind |-> kind, card |-> card, attempt |-> attempt,
     phase |-> phase, slept |-> slept, retrying |-> retrying]

\* fetch_page is entered for the first attempt.
FirstAttempt(page, kind, card) == Request(page, kind, card, 1, "delay", None, "none")

\* scrape_all_pages is called with its flags.
NetStart ==
    /\ pc = "idle"
    /\ BeginRun
    /\ save_new_only' = FALSE
    /\ fetch_phones' \in BOOLEAN
    /\ UNCHANGED <<config, requests>>

\* scrape_listing_page enters fetch_page(url).
ListingDelay ==
    /\ pc = "fetching"
    /\ \A r \in requests : r.kind # "listing"
    /\ requests' = requests \cup {FirstAttempt(current_url, "listing", 0)}
    /\ UNCHANGED <<cache_file, writer, call, pc, runArgs, walkVars, pageVars,
                   result, config, fetch_phones>>

\* enrich_apartment_data of card i starts: fetch_detail_page_data enters
\* fetch_page.
DetailDelay ==
    /\ pc = "enriching"
    /\ \E i \in 1..Len(tasks) :
        /\ ~tasks[i].done
        /\ \A r \in requests : ~(r.page = current_url /\ r.card = i)
        /\ requests' = requests \cup {FirstAttempt(current_url, "detail", i)}
    /\ UNCHANGED <<cache_file, writer, call, pc, runArgs, walkVars, pageVars,
                   result, config, fetch_phones>>

\* The sleep _delay drew is over: session.get sends the request.
SendRequest ==
    /\ \E r \in requests, d \in uniform(config.min_delay, config.max_delay) :
        /\ r.phase = "delay"
        /\ requests' = (requests \ {r}) \cup
            {[r EXCEPT !.phase = "get", !.slept = d, !.retrying = "none"]}
    /\ UNCHANGED <<cache_file, writer, call, pc, runArgs, walkVars, pageVars,
                   result, config, fetch_phones>>

\* An attempt raises an error tenacity retries, before the last attempt: after
\* the backoff fetch_page is entered again.
RetryRequest ==
    /\ \E r \in requests, e \in RetriedErrors :
        /\ r.phase = "get" /\ r.kind \in {"listing", "detail"}
        /\ r.attempt < StopAfterAttempt
        /\ requests' = (requests \ {r}) \cup
            {Request(r.page, r.kind, r.card, r.attempt + 1, "delay", None, e)}
    /\ UNCHANGED <<cache_file, writer, call, pc, runArgs, walkVars, pageVars,
                   result, config, fetch_phones>>

\* An attempt of fetch_page fails to its caller: the error is not one tenacity
\* retries, or it was the last attempt.
FailsToCaller(r, e) ==
    /\ r.phase = "get"
    /\ e \notin RetriedErrors \/ r.attempt >= StopAfterAttempt

\* The listing page arrives.
ListingArrives ==
    /\ \E r \in requests :
        /\ r.kind = "listing" /\ r.phase = "get" /\ r.page = current_url
        /\ requests' = requests \ {r}
    /\ ScrapeListingPage(ShortPages)
    /\ UNCHANGED <<config, fetch_phones>>

\* The fetch of the listing page fails to scrape_all_pages.
ListingFails ==
    /\ \E r \in requests, e \in Errors :
        /\ r.kind = "listing" /\ r.page = current_url
        /\ FailsToCaller(r, e)
        /\ requests' = requests \ {r}
    /\ BreakOnError
    /\ UNCHANGED <<config, fetch_phones>>

\* enrich_apartment_data after fetch_detail_page_data returned (the detail
\* data, or {} after a failure): the record is updated; with fetch_phone the
\* phone request goes out, else the task is finished.
AfterDetail(r, detail_ok) ==
    LET i == r.card
    IN  /\ pc = "enriching" /\ r.page = current_url /\ i \in 1..Len(tasks)
        /\ tasks' = [tasks EXCEPT ![i] =
                        [apt  |-> enrich_apartment_data(tasks[i].apt, DetailPage, detail_ok),
                         done |-> ~fetch_phones,
                         ok   |-> detail_ok]]
        /\ completed' = IF fetch_phones THEN completed ELSE Append(completed, i)
        /\ requests' = (requests \ {r}) \cup
              (IF fetch_phones
               THEN {Request(r.page, "phone", i, 1, "get", None, "none")}
               ELSE {})
        /\ UNCHANGED <<cache_file, writer, call, pc, runArgs, walkVars, html,
                       result, config, fetch_phones>>

\* The detail page of a card arrives.
DetailArrives ==
    \E r \in requests :
        r.kind = "detail" /\ r.phase = "get" /\ AfterDetail(r, TRUE)

\* The fetch of a detail page fails: fetch_detail_page_data logs and returns {}.
DetailFails ==
    \E r \in requests, e \in Errors :
        r.kind = "detail" /\ FailsToCaller(r, e) /\ AfterDetail(r, FALSE)

\* fetch_contact_phone returns, with a phone, without one or after an
\* exception it caught; the task is finished.
PhoneReturns ==
    /\ pc = "enriching"
    /\ \E r \in requests :
        /\ r.kind = "phone" /\ r.page = current_url /\ r.card \in 1..Len(tasks)
        /\ tasks' = [tasks EXCEPT ![r.card].done = TRUE]
        /\ completed' = Append(completed, r.card)
        /\ requests' = requests \ {r}
    /\ UNCHANGED <<cache_file, writer, call, pc, runArgs, walkVars, html,
                   result, config, fetch_phones>>

\* One walk of a client with the default configuration, request by request.
NextNet ==
    \/ NetStart
    \/ ListingDelay
    \/ SendRequest
    \/ RetryRequest
    \/ ListingArrives
    \/ ListingFails
    \/ DetailDelay
    \/ DetailArrives
    \/ DetailFails
    \/ PhoneReturns
    \/ Gather(ShortPages)
    \/ PaginationError

SpecNet == Init /\ [][NextNet]_vars

\* ------------------------------------------------------ one call of fetch_page
\* The configurations a client can be built with.
Configs ==
    {[min_delay |-> a, max_delay |-> b, max_retries |-> m] :
        a \in 1..MaxDelay, b \in 1..MaxDelay, m \in 1..MaxRetries}

\* A client is built from a configuration.
InitFetch ==
    /\ cache_file = <<>>
    /\ snapshot = <<>>
    /\ config \in Configs
    /\ Idle

\* fetch_page(url) is called.
CallFetch ==
    /\ call.op = "none" /\ requests = {}
    /\ requests' = {FirstAttempt(1, "listing", 0)}
    /\ UNCHANGED <<cache_file, writer, call, pc, runArgs, walkVars, pageVars,
                   result, config, fetch_phones>>

\* fetch_page returns the markup.
FetchReturns ==
    /\ \E r \in requests :
        /\ r.phase = "get"
        /\ requests' = requests \ {r}
        /\ call' = [NoCall EXCEPT !.op = "fetch", !.attempts = r.attempt]
    /\ UNCHANGED <<cache_file, writer, pc, runArgs, walkVars, pageVars, result,
                   config, fetch_phones>>

\* fetch_page raises to its caller.
FetchFails ==
    /\ \E r \in requests, e \in Errors :
        /\ FailsToCaller(r, e)
        /\ requests' = requests \ {r}
        /\ call' = [NoCall EXCEPT !.op = "fetch", !.attempts = r.attempt,
                                  !.error = e, !.raised = TRUE]
    /\ UNCHANGED <<cache_file, writer, pc, runArgs, walkVars, pageVars, result,
                   config, fetch_phones>>

NextFetch == CallFetch \/ SendRequest \/ RetryRequest \/ FetchReturns \/ FetchFails

SpecFetch == InitFetch /\ [][NextFetch]_vars

\* ------------------------------------------------ one call of the enricher
\* The apartments enrich_apartment_data can be handed: each optional field
\* unknown (as the parser leaves it) or known.
EnrichInputs ==
    {[post_id     |-> PyStr(<<"a">>),
      description |-> d,
      photos      |-> ph,
      floor       |-> f,
      watch_count |-> w,
      furnished   |-> fu,
      scraped_at  |-> 1] :
        d \in {"", "d"}, ph \in {<<>>, <<"p">>}, f \in {PyNone, PyInt(5)},
        w \in {PyNone, PyInt(9)}, fu \in {PyNone, PyBool(TRUE), PyBool(FALSE)}}

\* The detail pages the site can serve for it.
DetailPages ==
    {Page(d, ph, f, fu, span, text) :
        d \in {"", "e"}, ph \in {<<>>, <<"q">>}, f \in {None, 6},
        fu \in {"absent", "yes", "no"}, span \in BOOLEAN, text \in {<<>>, <<"8">>}}

\* enrich_apartment_data(apartment) is called; the detail fetch succeeds or
\* fails.
EnrichRecord ==
    /\ call.op = "none"
    /\ \E apt \in EnrichInputs, page \in DetailPages, detail_ok \in BOOLEAN :
        call' = [NoCall EXCEPT !.op = "enrich", !.apartments = <<apt>>,
                               !.read_ok = detail_ok,
                               !.out = <<enrich_apartment_data(apt, page, detail_ok)>>]
    /\ UNCHANGED <<cache_file, writer, runVars>>

NextEnrich == EnrichRecord

SpecEnrich == Init /\ [][NextEnrich]_vars

\* ------------------------------------------------- the cache store by itself
\* Apartments a caller of the CacheManager holds: built by the parser (the
\* post_id is the card's id string), enriched, at one of two ticks.
CacheRecords ==
    {[parse_card(s, t) EXCEPT !.description = "d", !.photos = <<"p">>,
                               !.floor = PyInt(5), !.furnished = PyBool(TRUE)] :
        s \in PostIds, t \in {1, 2}}

SeqsUpTo(S, n) == UNION {[1..k -> S] : k \in 0..n}

Batches == SeqsUpTo(CacheRecords, MaxBatch)

Against == SeqsUpTo(CacheRecords, MaxAgainst)

\* The store holds what an earlier save_apartments(batch) wrote, or nothing.
InitCache ==
    /\ cache_file \in {write_apartments(b) : b \in Batches}
    /\ snapshot = cache_file
    /\ config = DefaultConfig
    /\ Idle

\* save_apartments(apartments, append) called on the store.
Save ==
    /\ call.op = "none"
    /\ \E apartments \in Batches, append \in BOOLEAN :
       \E write \in (IF apartments = <<>> THEN {"ok"} ELSE WriteOutcomes) :
       \E read_ok \in (IF append /\ apartments # <<>> THEN BOOLEAN ELSE {TRUE}) :
       \E file \in save_apartments(cache_file, apartments, append, read_ok, write) :
        /\ cache_file' = file
        /\ call' = [NoCall EXCEPT !.op = "save", !.apartments = apartments,
                                  !.append = append, !.read_ok = read_ok,
                                  !.write = write]
    /\ UNCHANGED <<writer, runVars>>

\* find_new_apartments(current_apartments, cached_apartments) with the list given.
FindNewGiven ==
    /\ call.op = "none"
    /\ \E current \in Batches, cached \in Against :
        call' = [NoCall EXCEPT !.op = "find_new", !.apartments = current,
                               !.given = TRUE, !.cached = cached,
                               !.out = find_new_apartments(current, cached)]
    /\ UNCHANGED <<cache_file, writer, runVars>>

\* find_new_apartments(current_apartments): the cache is loaded.
FindNewLoaded ==
    /\ call.op = "none"
    /\ \E current \in Batches, read_ok \in BOOLEAN :
        call' = [NoCall EXCEPT !.op = "find_new", !.apartments = current,
                               !.read_ok = read_ok,
                               !.out = find_new_apartments(current,
                                          load_cached_apartments(cache_file, read_ok))]
    /\ UNCHANGED <<cache_file, writer, runVars>>

NextCache == Save \/ FindNewGiven \/ FindNewLoaded

SpecCache == InitCache /\ [][NextCache]_vars

\* ------------------------------------------------------ the write, step by step
\* save_apartments reaches _write_apartments: to_csv opens cache_path for
\* writing, which truncates it.
OpenForWrite ==
    /\ writer.state = "idle"
    /\ \E apartments \in Batches \ {<<>>}, append \in BOOLEAN :
        /\ writer' = [state   |-> "open",
                      rows    |-> write_apartments(
                                      merged_apartments(cache_file, apartments, append, TRUE)),
                      written |-> 0]
        /\ call' = [NoCall EXCEPT !.op = "save", !.apartments = apartments,
                                  !.append = append]
    /\ cache_file' = <<>>
    /\ UNCHANGED runVars

\* to_csv: one more row reaches the file.
WriteRow ==
    /\ writer.state = "open"
    /\ writer.written < Len(writer.rows)
    /\ cache_file' = Append(cache_file, writer.rows[writer.written + 1])
    /\ writer' = [writer EXCEPT !.written = @ + 1]
    /\ UNCHANGED <<call, runVars>>

\* to_csv: all rows are out, the file is closed and the save returns.
CloseFile ==
    /\ writer.state = "open"
    /\ writer.written = Len(writer.rows)
    /\ writer' = [writer EXCEPT !.state = "closed"]
    /\ UNCHANGED <<cache_file, call, runVars>>

\* The process is interrupted (Ctrl-C, kill) while the file is open.
Interrupt ==
    /\ writer.state = "open"
    /\ writer' = [writer EXCEPT !.state = "killed"]
    /\ UNCHANGED <<cache_file, call, runVars>>

NextWrite == OpenForWrite \/ WriteRow \/ CloseFile \/ Interrupt

SpecWrite == InitCache /\ [][NextWrite]_vars

\* ------------------------------------------------------- claims on the store
\* The post_id cells of a file, and whether two rows share one.
FileIds(file) == {file[i].post_id : i \in 1..Len(file)}

HasDuplicateId(file) ==
    \E i, j \in 1..Len(file) : i # j /\ file[i].post_id = file[j].post_id

RecordIds(apartments) == {apartments[i].post_id : i \in 1..Len(apartments)}

SaveDone == call.op = "save" /\ call.write = "ok"

\* C1: after a save on a store that held no two rows with the same id, whatever
\* the batch and the append flag, the file holds no two rows with the same id.
C1_UniqueIds ==
    (SaveDone /\ ~HasDuplicateId(snapshot)) => ~HasDuplicateId(cache_file)

\* C3: save(B, append=true) then load() yields exactly one entry per id of
\* ids(P) \cup ids(B); an id of B carries B's (last) entry in full, an id only
\* in P carries P's entry unchanged.
C3_AppendIsUnion ==
    (SaveDone /\ call.append /\ call.read_ok /\ ~HasDuplicateId(snapshot)) =>
        LET P == load_cached_apartments(snapshot, TRUE)
            B == call.apartments
            L == load_cached_apartments(cache_file, TRUE)
            LastOf(id) == B[CHOOSE i \in 1..Len(B) :
                              /\ B[i].post_id = id
                              /\ \A j \in (i + 1)..Len(B) : B[j].post_id # id]
        IN  /\ RecordIds(L) = RecordIds(P) \cup RecordIds(B)
            /\ Len(L) = Cardinality(RecordIds(P) \cup RecordIds(B))
            /\ \A k \in 1..Len(L) :
                 IF L[k].post_id \in RecordIds(B)
                 THEN L[k] = LastOf(L[k].post_id)
                 ELSE \E i \in 1..Len(P) : P[i] = L[k]

\* The records of batch, in batch order, whose post_id no record of against has.
RECURSIVE IdDifference(_, _)
IdDifference(batch, against) ==
    IF batch = <<>> THEN <<>>
    ELSE LET rest == IdDifference(Tail(batch), against)
         IN  IF \E i \in 1..Len(against) : against[i].post_id = batch[1].post_id
             THEN rest
             ELSE <<batch[1]>> \o rest

\* C5: find_new_apartments returns the records of the batch, in batch order,
\* whose id no record of "against" has; with "against" omitted it is what
\* load() returns for the current file.  The result is a function of the inputs.
C5_DiffIsIdDifference ==
    call.op = "find_new" =>
        call.out = IdDifference(call.apartments,
                                IF call.given THEN call.cached
                                ELSE load_cached_apartments(cache_file, call.read_ok))

\* C5 witness: a diff against a given list that keeps one record and drops
\* another whose id, but not its content, is in the list.
C5_Witness ==
    /\ call.op = "find_new" /\ call.given
    /\ Len(call.apartments) = 2 /\ Len(call.out) = 1
    /\ \E i \in 1..2 : /\ call.apartments[i].post_id \in RecordIds(call.cached)
                       /\ \A k \in 1..Len(call.cached) : call.cached[k] # call.apartments[i]

\* C5 witness for the omitted list is reached as well.
C5_WitnessLoaded ==
    /\ call.op = "find_new" /\ ~call.given /\ call.read_ok
    /\ cache_file # <<>> /\ Len(call.out) < Len(call.apartments)

\* The rows a list of parser-built apartments stands for.
RowsOf(R) ==
    [i \in 1..Len(R) |-> [post_id     |-> R[i].post_id.s,
                          description |-> R[i].description,
                          photos      |-> <<"[", "\"", "p", "\"", "]">>,
                          floor       |-> <<"5">>,
                          watch_count |-> <<>>,
                          furnished   |-> "True",
                          scraped_at  |-> R[i].scraped_at]]

C11_NoCrossPageConcurrency ==
    \A r \in requests :
        /\ r.page = current_url
        /\ r.kind = "listing" =>
              /\ requests = {r}
              /\ pc = "fetching" /\ tasks = <<>>
              /\ Len(walked) = current_url - 1
        /\ r.kind # "listing" => pc = "enriching" /\ ~tasks[r.card].done

\* C11 witness: the listing fetch of the second page is on the network after a
\* first page whose two cards were enriched.
C11_Witness ==
    /\ \E r \in requests : r.kind = "listing" /\ r.phase = "get" /\ r.page = 2
    /\ enrich_data /\ Len(walked) = 1 /\ Len(walked[1].cards) = 2

\* The records a walked page stands for: card i gives record i, with the
\* description of its own detail page when that was fetched.
PageRecords(w, tick) ==
    [i \in 1..Len(w.cards) |->
        [post_id     |-> PyStr(w.cards[i]),
         description |-> IF w.details[i] THEN "d" ELSE "",
         photos      |-> IF w.details[i] THEN <<"p">> ELSE <<>>,
         floor       |-> IF w.details[i] THEN PyInt(5) ELSE PyNone,
         watch_count |-> PyNone,
         furnished   |-> IF w.details[i] THEN PyBool(TRUE) ELSE PyNone,
         scraped_at  |-> tick]]

RECURSIVE WalkRecords(_, _)
WalkRecords(pages, tick) ==
    IF pages = <<>> THEN <<>>
    ELSE WalkRecords(SubSeq(pages, 1, Len(pages) - 1), tick)
             \o PageRecords(pages[Len(pages)], tick)

\* C2: after a run, an id the store held before the run is not reported as new
\* by the final diff, and the run added no second row for it.
C2_RerunRecognised ==
    pc = "returned" =>
        /\ (call.op = "find_new" /\ call.read_ok) =>
               \A i \in 1..Len(result) : result[i].post_id.s \notin FileIds(snapshot)
        /\ \A id \in FileIds(snapshot) :
               Cardinality({i \in 1..Len(cache_file) : cache_file[i].post_id = id})
                   <= Cardinality({i \in 1..Len(snapshot) : snapshot[i].post_id = id})

\* The records of a list whose id text no row of the file carries.
RECURSIVE AbsentFrom(_, _)
AbsentFrom(apartments, file) ==
    IF apartments = <<>> THEN <<>>
    ELSE LET rest == AbsentFrom(Tail(apartments), file)
         IN  IF CellText(apartments[1].post_id) \in FileIds(file)
             THEN rest
             ELSE <<apartments[1]>> \o rest

\* C4: a run with save_new_only returns exactly the scraped records whose id
\* the store did not hold when the run started.
C4_NewAgainstSnapshot ==
    (pc = "returned" /\ save_new_only /\ call.op = "find_new" /\ call.read_ok) =>
        result = AbsentFrom(all_apartments, snapshot)

\* C7: a per-page save(append=true) whose write succeeds removes no id from
\* the file, also when its load fell back to the empty set.
C7_NoIdLeaves ==
    [][(call'.op = "save" /\ call'.write = "ok")
          => FileIds(cache_file) \subseteq FileIds(cache_file')]_vars

\* C8: while a save is in progress, and after an interrupt of it, the file
\* holds the complete previous rows or the complete new rows.
C8_AtomicReplace ==
    writer.state # "idle" => cache_file \in {snapshot, writer.rows}

\* C9: when page k raises, the walk ends there, no exception leaves it, and it
\* returns the records of pages 1..k-1 in order.
C9_ErrorKeepsEarlierPages ==
    (pc = "walked" /\ error_at # None) =>
        /\ current_url = error_at
        /\ Len(walked) = error_at - 1
        /\ \A p \in 1..Len(walked) : walked[p].url = p
        /\ all_apartments = WalkRecords(walked, now)

\* C9 witness: the second page raised after a first page that had cards.
C9_Witness ==
    pc = "walked" /\ error_at = 2 /\ Len(walked) = 1 /\ Len(all_apartments) >= 1

\* C10: whatever the order in which the enrichment tasks complete, the result
\* lists the pages in walk order and, within a page, record i is the one built
\* from card i.
C10_OrderPreserved ==
    /\ \A p \in 1..Len(walked) : walked[p].url = p
    /\ all_apartments = WalkRecords(walked, now)

\* C10 witness: a second page whose two different cards were enriched in
\* reverse order, with different outcomes, has been appended after a first
\* page that had a card.
C10_Witness ==
    /\ Len(walked) = 2 /\ tasks = <<>> /\ completed = <<2, 1>>
    /\ Len(walked[1].cards) = 1
    /\ Len(walked[2].cards) = 2 /\ walked[2].cards[1] # walked[2].cards[2]
    /\ walked[2].details[1] # walked[2].details[2]
    /\ Len(all_apartments) = 3

\* The listing pages a walk has fetched, or attempted to fetch, so far.
PagesFetched ==
    Len(walked) + (IF pc = "enriching" \/ error_at # None THEN 1 ELSE 0)

\* C12: for every max_pages >= 0 handed to the walk, the walk fetches at most
\* max_pages listing pages.
C12_AtMostMaxPages == pc # "idle" => PagesFetched <= max_pages

\* C12 restricted to max_pages >= 1: a limit of 0 is the only one exceeded.
C12_AtMostPositiveMaxPages ==
    (pc # "idle" /\ max_pages # 0) => PagesFetched <= max_pages

\* ----------------------------------------------------- claims on the fetches
\* The errors the fetcher is to retry (timeouts, connection errors, retryable
\* statuses) and those it is not to (a malformed URL, a 4xx other than 429).
TransientErrors == {"timeout"}

NonTransientErrors == {"http_404", "invalid_url"}

\* C13: one call of fetch_page makes at most config.max_retries attempts, and
\* exactly that many when it fails after transient errors only.
C13_AttemptsWithinMaxRetries ==
    /\ \A r \in requests : r.attempt <= config.max_retries
    /\ call.op = "fetch" =>
          /\ call.attempts <= config.max_retries
          /\ (call.raised /\ call.error \in TransientErrors) =>
                 call.attempts = config.max_retries

\* C14: no further attempt follows an attempt that failed with a non-transient
\* error.
C14_NonTransientNotRetried ==
    \A r \in requests : r.retrying \notin NonTransientErrors

\* C15: every request on the network was immediately preceded by a sleep of
\* _delay, of a duration within [min_delay, max_delay].
C15_DelayBeforeEveryRequest ==
    \A r \in requests :
        r.phase = "get" => r.slept \in config.min_delay..config.max_delay

\* C15 restricted to the attempts of fetch_page (listing and detail pages):
\* the contact-phone request is the only one sent without a sleep.
C15_DelayBeforePageRequest ==
    \A r \in requests :
        (r.phase = "get" /\ r.kind # "phone") =>
            r.slept \in config.min_delay..config.max_delay

\* A step in which the enrichment of card i ends, or goes on to the phone
\* request, after its detail fetch failed.
DetailFailed(i) ==
    /\ Len(tasks') = Len(tasks)
    /\ tasks'[i] # tasks[i]
    /\ ~tasks'[i].ok

\* C16: a failed detail fetch leaves the record as the card gave it, leaves the
\* other tasks of the page alone and aborts neither the page nor the walk; the
\* records the detail fetch succeeded for are enriched, and the page is handed
\* on whole.
C16_EnrichNeverFails ==
    /\ [][\A i \in 1..Len(tasks) :
            DetailFailed(i) =>
               /\ tasks'[i].apt = tasks[i].apt
               /\ \A j \in 1..Len(tasks) : j # i => tasks'[j] = tasks[j]
               /\ pc' = "enriching" /\ error_at' = None
               /\ all_apartments' = all_apartments /\ walked' = walked]_vars
    /\ [](/\ \A i \in 1..Len(tasks) :
               tasks[i].apt =
                   PageRecords([cards |-> html.cards,
                                details |-> [j \in 1..Len(tasks) |-> tasks[j].ok]],
                               now)[i]
          /\ all_apartments = WalkRecords(walked, now))

\* C16 witness: a page was handed on with a record whose detail fetch failed
\* and a record that was enriched, and the walk went on to the next page.
C16_Witness ==
    /\ Len(walked) = 1 /\ walked[1].details = <<FALSE, TRUE>>
    /\ Len(all_apartments) = 2 /\ error_at = None /\ pc = "fetching"

\* ---------------------------------------------------- claims on the enricher
\* An optional field holds a known value: not None, not nan, not an empty list.
Known(v) == v # PyNone /\ v # PyNaN /\ v # <<>>

OptionalFields == {"photos", "floor", "watch_count", "furnished"}

\* C17: enrich_apartment_data leaves known every optional field that was
\* known, whatever the detail page holds.
C17_NeverDowngraded ==
    call.op = "enrich" =>
        \A f \in OptionalFields :
            Known(call.apartments[1][f]) => Known(call.out[1][f])

\* C17 restricted to the fields a detail page sets only when it lists them
\* (floor, furnished): these are never downgraded.
C17_ListedFieldsNeverDowngraded ==
    call.op = "enrich" =>
        \A f \in {"floor", "furnished"} :
            Known(call.apartments[1][f]) => Known(call.out[1][f])

\* --------------------------------------------------- claims on the interrupt
\* The ids of the cards of the pages whose callback has returned.
SavedPageIds == UNION {{w.cards[i] : i \in 1..Len(w.cards)} :
                          w \in {walked[p] : p \in 1..Len(walked)}}

\* C18: after an interrupt the walk fetches nothing more, and the file still
\* holds every record of every page whose callback had returned.
C18_InterruptKeepsSavedPages ==
    pc = "interrupted" => SavedPageIds \subseteq FileIds(cache_file)

\* C18 restricted to interrupts that arrive while the walk awaits the network:
\* only an interrupt inside the write of a page loses earlier pages.
C18_InterruptBetweenSaves ==
    (pc = "interrupted" /\ call.write # "interrupted") =>
        SavedPageIds \subseteq FileIds(cache_file)

\* ------------------------------------------------ claims on cache I/O errors
\* C19: a read or parse error in load yields the empty list, on its own and
\* inside an append-save (which then writes the batch alone); a save whose
\* write cannot start leaves the file as it was; in each case the call returns
\* to its caller.
C19_CacheErrorsAbsorbed ==
    /\ (call.op = "find_new" /\ ~call.given /\ ~call.read_ok) =>
           call.out = call.apartments
    /\ (call.op = "save" /\ call.append /\ ~call.read_ok /\ call.write = "ok") =>
           cache_file = write_apartments(DictOf(call.apartments))
    /\ (call.op = "save" /\ call.write = "open_error") => cache_file = snapshot
    /\ call.op \in {"save", "find_new"} => ~call.raised

\* C19 witness: the diff was taken while the file, which holds the id of a
\* record of the batch, could not be read.
C19_Witness ==
    /\ call.op = "find_new" /\ ~call.given /\ ~call.read_ok
    /\ \E i \in 1..Len(call.apartments) :
           CellText(call.apartments[i].post_id) \in FileIds(cache_file)
    /\ call.out = call.apartments

\* C19 on the walk: a page whose save met a read or write error is handed on
\* like any other and the walk goes on.
C19_WalkGoesOn ==
    [][(call' # call /\ call'.op = "save") =>
          /\ Len(walked') = Len(walked) + 1
          /\ error_at' = None
          /\ pc' \in {"fetching", "walked"}]_vars

\* ------------------------------------------------- a write and a load back
\* Records as a caller may hold them: a numeric or a lettered id, an empty or a
\* filled description, no, one or two photos, floor and furnished known or not.
RoundTripRecords ==
    {[parse_card(s, 1) EXCEPT !.description = d, !.photos = p, !.floor = f,
                              !.furnished = u] :
        s \in PostIds, d \in {"", "d"},
        p \in {<<>>, <<"p">>, <<"p", "q">>},
        f \in {PyNone, PyInt(5)},
        u \in {PyNone, PyBool(TRUE), PyBool(FALSE)}}

\* _write_apartments(apartments) followed by load_cached_apartments().
WriteAndLoad ==
    /\ call.op = "none"
    /\ \E apartments \in SeqsUpTo(RoundTripRecords, MaxBatch) :
        /\ apartments # <<>>
        /\ cache_file' = write_apartments(apartments)
        /\ call' = [NoCall EXCEPT !.op = "round_trip", !.apartments = apartments,
                                  !.out = load_cached_apartments(
                                              write_apartments(apartments), TRUE)]
    /\ UNCHANGED <<writer, runVars>>

NextRoundTrip == WriteAndLoad

SpecRoundTrip == Init /\ [][NextRoundTrip]_vars

\* C20: the records loaded back are the records written, field by field.
C20_RoundTrip == call.op = "round_trip" => call.out = call.apartments

\* What does come back as written: the lists, empty or not, a filled
\* description, a known furnished value, the text of the id and the time of
\* the scrape; a known floor comes back as the same number, int or float.
C20_ListsAndKnownValuesRoundTrip ==
    call.op = "round_trip" =>
        /\ Len(call.out) = Len(call.apartments)
        /\ \A i \in 1..Len(call.apartments) :
            LET apt == call.apartments[i]
                got == call.out[i]
            IN  /\ got.photos = apt.photos
                /\ got.scraped_at = apt.scraped_at
                /\ CellText(got.post_id) = CellText(apt.post_id)
                /\ apt.description # "" => got.description = apt.description
                /\ apt.furnished # PyNone => got.furnished = apt.furnished
                /\ apt.floor # PyNone => IsNumber(got.floor) /\ got.floor.n = apt.floor.n

\* --------------------------------------------------- the same batch, twice
\* save_apartments(apartments, append=True) called a second time with the batch
\* of the call before; snapshot keeps the file the first call left.
SaveAgain ==
    /\ call.op = "save" /\ call.append /\ call.read_ok /\ call.write = "ok"
    /\ call.apartments # <<>>
    /\ snapshot' = cache_file
    /\ cache_file' \in save_apartments(cache_file, call.apartments, TRUE, TRUE, "ok")
    /\ call' = [call EXCEPT !.op = "save_again"]
    /\ UNCHANGED <<writer, pc, now, save_new_only, enrich_data, max_pages,
                   walkVars, pageVars, result, netVars>>

NextSaveTwice == Save \/ SaveAgain

SpecSaveTwice == InitCache /\ [][NextSaveTwice]_vars

\* C21: the second append-save of a batch leaves the file the first one left.
C21_AppendSaveIdempotent == call.op = "save_again" => cache_file = snapshot

\* The second save changes nothing when the first one left a file without a
\* repeated id in which some id is not a digit run.
C21_IdempotentWithLetteredId ==
    (/\ call.op = "save_again"
     /\ ~HasDuplicateId(snapshot)
     /\ \E id \in FileIds(snapshot) : ~IsNumeric(id))
        => cache_file = snapshot

\* ------------------------------------------------- the markup of one card
\* A card of a listing page, by what _parse_card looks for in it: the id
\* attribute (<<>> when absent), whether the title element is there, and the
\* text of the price element (NoElement when the card has none).

Card(id, title, price_text) == [id |-> id, title |-> title, price_text |-> price_text]

\* Characters of a price text: digits, the space, "_" for the no-break space
\* \xa0 and "w" for a letter.
Replace(s, c) == LET keep(x) == x # c IN SelectSeq(s, keep)

\* re.search(r'([\d\s]+)', text): the first maximal run of digits and spaces.
re_search_price(text) ==
    LET hit(i) == text[i] \in DigitSet \cup {" "}
        hits   == {i \in 1..Len(text) : hit(i)}
    IN  IF hits = {} THEN [found |-> FALSE, group |-> <<>>]
        ELSE LET first == CHOOSE i \in hits : \A j \in hits : i <= j
                 last  == CHOOSE j \in first..Len(text) :
                              /\ \A k \in first..j : hit(k)
                              /\ (j < Len(text) => ~hit(j + 1))
             IN  [found |-> TRUE, group |-> SubSeq(text, first, last)]

\* float(s) on a run of digits: the number, or ValueError on the empty string.
float(s) == IF IsNumeric(s) THEN [ok |-> TRUE, v |-> IntOf(s)]
            ELSE [ok |-> FALSE, v |-> 0]

\* The price lines of _parse_card: 0.0 without the element or without a match,
\* else float of the match with its spaces removed.
card_price(price_text) ==
    IF price_text = NoElement THEN [ok |-> TRUE, v |-> 0]
    ELSE LET price_match == re_search_price(Replace(price_text, "_"))
         IN  IF price_match.found THEN float(Replace(price_match.group, " "))
             ELSE [ok |-> TRUE, v |-> 0]

\* _parse_card on the markup: None without id or title and when anything in
\* it raises (the except clause returns None), else the partial record with
\* its price.
parse_card_markup(card, tick) ==
    IF card.id = <<>> THEN PyNone
    ELSE IF ~card.title THEN PyNone
    ELSE IF ~card_price(card.price_text).ok THEN PyNone
    ELSE [price |-> PyFloat(card_price(card.price_text).v)] @@ parse_card(card.id, tick)

\* A page parser that gives up on the whole page at the first card it cannot
\* parse.
RECURSIVE parse_listing_markup_all_or_nothing(_, _)
parse_listing_markup_all_or_nothing(cards, tick) ==
    IF cards = <<>> THEN <<>>
    ELSE LET rest == parse_listing_markup_all_or_nothing(
                         SubSeq(cards, 1, Len(cards) - 1), tick)
             apartment_data == parse_card_markup(cards[Len(cards)], tick)
         IN  IF apartment_data # PyNone /\ Len(rest) = Len(cards) - 1
             THEN Append(rest, apartment_data) ELSE <<>>

\* parse_listing_page on the markup: the loop over the cards, appending what
\* _parse_card returns unless it is None.
RECURSIVE parse_listing_markup(_, _)
parse_listing_markup(cards, tick) ==
    IF cards = <<>> THEN <<>>
    ELSE LET rest == parse_listing_markup(SubSeq(cards, 1, Len(cards) - 1), tick)
             apartment_data == parse_card_markup(cards[Len(cards)], tick)
         IN  IF apartment_data # PyNone THEN Append(rest, apartment_data) ELSE rest

\* Price texts: "1\xa00 w" (10), "w" (no digit, no space), "w w" (words
\* separated by a space), "w 5" (a word, then 5).
PriceTexts ==
    {<<"1", "_", "0", " ", "w">>, <<"w">>, <<"w", " ", "w">>, <<"w", " ", "5">>}

\* Cards with or without id, with a title and any price text or none, or
\* without a title (the price of such a card is never looked at).
Cards ==
    {Card(id, TRUE, price_text) :
        id \in PostIds \cup {<<>>}, price_text \in PriceTexts \cup {NoElement}}
    \cup {Card(id, FALSE, NoElement) : id \in PostIds \cup {<<>>}}

\* parse_listing_page called on a page of up to MaxCards cards.
ParseListing ==
    /\ call.op = "none"
    /\ \E cards \in SeqsUpTo(Cards, MaxCards) :
        /\ html' = [cards |-> cards, pagination |-> NoPagination]
        /\ call' = [NoCall EXCEPT !.op = "parse",
                                  !.out = parse_listing_markup(cards, now)]
    /\ UNCHANGED <<cache_file, writer, pc, runArgs, walkVars, tasks, completed,
                   result, netVars>>

NextParse == ParseListing

SpecParse == Init /\ [][NextParse]_vars

\* ------------------------------------------------ claims on the card parser
\* The cards of the page parsed last that _parse_card turns into a record.
ParsedCards ==
    LET parses(card) == parse_card_markup(card, now) # PyNone
    IN  SelectSeq(html.cards, parses)

\* C22: of the n cards of a page, k of which fail to parse or lack an id, the
\* page parser returns the n - k records of the other cards, in card order,
\* each with a non-empty id.
C22_OtherCardsAreReturned ==
    call.op = "parse" =>
        /\ Len(call.out) = Len(ParsedCards)
        /\ \A j \in 1..Len(ParsedCards) :
              /\ call.out[j] = parse_card_markup(ParsedCards[j], now)
              /\ call.out[j].post_id = PyStr(ParsedCards[j].id)
              /\ call.out[j].post_id.s # <<>>

\* C22 witness: a page of three cards whose second card cannot be parsed gave
\* the records of the first and the third.
C22_Witness ==
    /\ call.op = "parse"
    /\ Len(html.cards) = 3
    /\ parse_card_markup(html.cards[2], now) = PyNone
    /\ Len(call.out) = 2
    /\ call.out[1].post_id = PyStr(html.cards[1].id)
    /\ call.out[2].post_id = PyStr(html.cards[3].id)

\* The number a price text stands for: its first run of digits, spaces and
\* no-break spaces that holds a digit, read without the separators; 0 when the
\* text has no digit.
PriceOf(text) ==
    LET sep(i)  == text[i] \in {" ", "_"}
        dig(i)  == text[i] \in DigitSet
        digits  == {i \in 1..Len(text) : dig(i)}
    IN  IF digits = {} THEN 0
        ELSE LET first == CHOOSE i \in digits : \A j \in digits : i <= j
                 last  == CHOOSE j \in first..Len(text) :
                              /\ \A k \in first..j : dig(k) \/ sep(k)
                              /\ (j < Len(text) => ~(dig(j + 1) \/ sep(j + 1)))
                 isdig(c) == c \in DigitSet
             IN  IntOf(SelectSeq(SubSeq(text, first, last), isdig))

\* C23: a card with an id and a title yields a record, whatever its price
\* text, and the record's price is the number the text stands for (0 when the
\* text has no digit).
C23_PriceTextNeverDropsCard ==
    call.op = "parse" =>
        \A i \in 1..Len(html.cards) :
            LET card == html.cards[i]
            IN  (card.id # <<>> /\ card.title /\ card.price_text # NoElement) =>
                    \E j \in 1..Len(call.out) :
                        /\ call.out[j].post_id = PyStr(card.id)
                        /\ call.out[j].price = PyFloat(PriceOf(card.price_text))

\* The price of every record that is returned is the number its card's price
\* text stands for.
C23_ReturnedPriceIsTheNumber ==
    call.op = "parse" =>
        \A j \in 1..Len(ParsedCards) :
            ParsedCards[j].price_text # NoElement =>
                call.out[j].price = PyFloat(PriceOf(ParsedCards[j].price_text))

\* ------------------------------------------------ the walk and the pagination
\* A healthy file system and a site whose pages carry any pagination block.
AnyPagination ==
    [Healthy EXCEPT !.blocks = {"none", "forward", "last", "unnumbered"}]

NextPaginate ==
    \/ StartWalk
    \/ FetchPage(AnyPagination)
    \/ PageError
    \/ EnrichTask
    \/ Gather(AnyPagination)
    \/ PaginationError

SpecPaginate == Init /\ [][NextPaginate]_vars

\* A pagination block without wrapper or without forward link.
NoForwardLink(pagination) == ~pagination.wrapper \/ pagination.forward = None

\* C24: a page without pagination block, or whose block has no forward link,
\* gives no next page url, current page 1 and total pages 1 where the block
\* gives no number for them, and is the last page of the walk, which ends
\* with the records of that page at the end of its result.
C24_WalkEndsWithoutForwardLink ==
    \A k \in 1..Len(walked) :
        LET pagination == walked[k].pagination
            info       == extract_pagination_info(pagination)
        IN  NoForwardLink(pagination) =>
                /\ info.next_page_url = None
                /\ ~pagination.wrapper =>
                       info.current_page = 1 /\ info.total_pages = 1
                /\ ~int(pagination.active).ok => info.current_page = 1
                /\ ~int(pagination.last).ok => info.total_pages = 1
                /\ k = Len(walked)
                /\ pc = "walked" /\ current_url = None /\ error_at = None
                /\ all_apartments = WalkRecords(walked, now)

\* C24 witness: the walk ended on a second page that has cards and a
\* pagination block whose items carry no number and no forward link.
C24_Witness ==
    /\ pc = "walked" /\ Len(walked) = 2
    /\ walked[2].pagination = Pagination(TRUE, <<"w">>, NoElement, None)
    /\ walked[2].cards # <<>>
    /\ all_apartments = WalkRecords(walked, now)

\* ---------------------------------------------------------- dates of cards
\* A calendar date, as datetime.now() gives it.
Date(year, month, day) == [year |-> year, month |-> month, day |-> day]

\* strftime("%d.%m.%Y") and the format f"{day:02d}.{month:02d}.{year}".
Pad2(n) == IF n < 10 THEN <<"0">> \o StrOf(n) ELSE StrOf(n)

strftime(date) ==
    Pad2(date.day) \o <<".">> \o Pad2(date.month) \o <<".">> \o StrOf(date.year)

\* A date text, word by word: a word is a name (digits <<>>) or a run of
\* digits (name "").
Word(name) == [name |-> name, digits |-> <<>>]

Number(digits) == [name |-> "", digits |-> digits]

\* months_uk, transliterated: the genitive month names and their three-letter
\* forms.
months_uk ==
    {<<"sichnia", 1>>, <<"sich", 1>>, <<"liutoho", 2>>, <<"liut", 2>>,
     <<"bereznia", 3>>, <<"ber", 3>>, <<"kvitnia", 4>>, <<"kvi", 4>>,
     <<"travnia", 5>>, <<"tra", 5>>, <<"chervnia", 6>>, <<"cher", 6>>,
     <<"lypnia", 7>>, <<"lyp", 7>>, <<"serpnia", 8>>, <<"ser", 8>>,
     <<"veresnia", 9>>, <<"ver", 9>>, <<"zhovtnia", 10>>, <<"zhov", 10>>,
     <<"lystopada", 11>>, <<"lys", 11>>, <<"hrudnia", 12>>, <<"hru", 12>>}

\* months_uk.get(month_name, default).
months_uk_get(month_name, default) ==
    IF \E e \in months_uk : e[1] = month_name
    THEN (CHOOSE e \in months_uk : e[1] = month_name)[2]
    ELSE default

\* "Сьогодні" in date_str or "Сегодня" in date_str, and the same for yesterday.
HasToday(date_str) ==
    \E i \in 1..Len(date_str) : date_str[i].name \in {"sohodni", "segodnia"}

HasYesterday(date_str) ==
    \E i \in 1..Len(date_str) : date_str[i].name \in {"vchora", "vchera"}

\* re.search(r'(\d{1,2})\s+(\w+)\s+(\d{4})', date_str): the first place where
\* a run of one or two digits, a word and a run of four digits follow each
\* other; 0 when there is none.
date_match(date_str) ==
    LET at(i) == /\ Len(date_str[i].digits) \in {1, 2}
                 /\ Len(date_str[i + 2].digits) = 4
        places == {i \in 1..(Len(date_str) - 2) : at(i)}
    IN  IF places = {} THEN 0 ELSE CHOOSE i \in places : \A j \in places : i <= j

\* _normalize_date, with datetime.now() as now_date.
normalize_date(date_str, now_date) ==
    IF date_str = <<>> THEN strftime(now_date)
    ELSE IF HasToday(date_str) THEN strftime(now_date)
    ELSE IF HasYesterday(date_str)
    THEN strftime(Date(now_date.year, now_date.month,
                       IF now_date.day > 1 THEN now_date.day - 1 ELSE 1))
    ELSE LET i == date_match(date_str)
         IN  IF i # 0
             THEN LET day   == IntOf(date_str[i].digits)
                      month == months_uk_get(date_str[i + 1].name, now_date.month)
                      year  == IntOf(date_str[i + 2].digits)
                  IN  Pad2(day) \o <<".">> \o Pad2(month) \o <<".">> \o StrOf(year)
             ELSE strftime(now_date)

\* Days the clock can show: the first and another day of a month, the first
\* of a year, the day after a leap day.
Todays ==
    {Date(2025, 10, 15), Date(2025, 10, 2), Date(2025, 10, 1), Date(2025, 1, 1),
     Date(2024, 3, 1), Date(2025, 12, 31)}

\* Date texts of cards: none, today and yesterday with a time, a day with a
\* month name of the table or another word and a year, with and without the
\* trailing letter, a day and a month without year, a single word.
DateTexts ==
    {<<>>, <<Word("price")>>,
     <<Word("sohodni"), Word("o"), Number(<<"1", "1">>)>>,
     <<Word("vchora"), Word("o"), Number(<<"1", "1">>)>>,
     <<Word("vchera")>>,
     <<Number(<<"1", "5">>), Word("zhovtnia")>>}
    \cup {<<Number(d), Word(m), Number(<<"2", "0", "2", "5">>)>> \o tail :
             d \in {<<"0", "1">>, <<"7">>, <<"3", "1">>},
             m \in {"zhovtnia", "sich", "oktiabria", "price"},
             tail \in {<<>>, <<Word("r")>>}}

\* _normalize_date called while the clock shows now_date.
NormalizeDate ==
    /\ call.op = "none"
    /\ \E date_str \in DateTexts, now_date \in Todays :
        call' = [NoCall EXCEPT !.op = "normalize_date",
                               !.args = <<date_str, now_date>>,
                               !.out = normalize_date(date_str, now_date)]
    /\ UNCHANGED <<cache_file, writer, runVars>>

NextDate == NormalizeDate

SpecDate == Init /\ [][NextDate]_vars

\* ------------------------------------------------------- claims on the dates
\* The calendar: the days of a month and the day before a date.
IsLeap(year) == year % 4 = 0 /\ (year % 100 # 0 \/ year % 400 = 0)

DaysIn(year, month) ==
    IF month = 2 THEN (IF IsLeap(year) THEN 29 ELSE 28)
    ELSE IF month \in {4, 6, 9, 11} THEN 30 ELSE 31

DayBefore(date) ==
    IF date.day > 1 THEN Date(date.year, date.month, date.day - 1)
    ELSE IF date.month > 1
         THEN Date(date.year, date.month - 1, DaysIn(date.year, date.month - 1))
         ELSE Date(date.year - 1, 12, 31)

\* C25: on every day, a date text with the word for yesterday normalizes to
\* the day before today, day.month.year.
C25_YesterdayIsTheDayBefore ==
    (call.op = "normalize_date" /\ HasYesterday(call.args[1]) /\ ~HasToday(call.args[1]))
        => call.out = strftime(DayBefore(call.args[2]))

\* On a day that is not the first of its month, yesterday is the day before.
C25_YesterdayWithinTheMonth ==
    (/\ call.op = "normalize_date"
     /\ HasYesterday(call.args[1]) /\ ~HasToday(call.args[1])
     /\ call.args[2].day > 1)
        => call.out = strftime(DayBefore(call.args[2]))

\* A date text the code is written for: a day, a month name of the table and
\* a four-digit year.
IsTableDate(date_str) ==
    \E i \in 1..(Len(date_str) - 2) :
        /\ Len(date_str[i].digits) \in {1, 2}
        /\ months_uk_get(date_str[i + 1].name, 0) # 0
        /\ Len(date_str[i + 2].digits) = 4

\* C26: a date text that is neither relative nor a day, a month name of the
\* table and a four-digit year normalizes to today, day.month.year.
C26_UnparseableIsToday ==
    (/\ call.op = "normalize_date"
     /\ ~HasToday(call.args[1]) /\ ~HasYesterday(call.args[1])
     /\ ~IsTableDate(call.args[1]))
        => call.out = strftime(call.args[2])

\* A date text without a day, a word and a four-digit year in a row
\* normalizes to today.
C26_NoDayWordYearIsToday ==
    (/\ call.op = "normalize_date"
     /\ ~HasToday(call.args[1]) /\ ~HasYesterday(call.args[1])
     /\ date_match(call.args[1]) = 0)
        => call.out = strftime(call.args[2])

\* ------------------------------------------------- claims on save_new_only
\* C27: a run with save_new_only leaves every row the file held before the
\* run as it was, and adds no other row with the id of such a row.
C27_NewOnlyKeepsOldEntries ==
    (pc = "returned" /\ save_new_only) =>
        \A i \in 1..Len(snapshot) :
            /\ \E j \in 1..Len(cache_file) : cache_file[j] = snapshot[i]
            /\ \A j \in 1..Len(cache_file) :
                   cache_file[j].post_id = snapshot[i].post_id =>
                       cache_file[j] = snapshot[i]

\* A run with save_new_only leaves a row of every id the file held before it.
C27_NewOnlyKeepsOldIds ==
    (pc = "returned" /\ save_new_only) => FileIds(snapshot) \subseteq FileIds(cache_file)

\* ------------------------------------------------------------ the statistics
\* The price and location columns of the file, which the other specifications
\* leave out: price is a float column (written as 3.0), location a text column
\* whose empty cells are read as nan.
write_apartments_priced(apartments) ==
    [i \in 1..Len(apartments) |->
        [price    |-> StrOf(apartments[i].price.n) \o <<".", "0">>,
         location |-> apartments[i].location]
            @@ write_apartments(apartments)[i]]

load_cached_apartments_priced(file) ==
    [i \in 1..Len(file) |->
        [price    |-> PyFloat(NumberOf(file[i].price)),
         location |-> IF file[i].location = "" THEN NaN ELSE file[i].location]
            @@ load_cached_apartments(file, TRUE)[i]]

\* sum(prices), min(prices), max(prices) on a list of numbers.
RECURSIVE sum(_)
sum(prices) == IF prices = <<>> THEN 0 ELSE prices[1] + sum(Tail(prices))

min(prices) == CHOOSE p \in {prices[i] : i \in 1..Len(prices)} :
                   \A i \in 1..Len(prices) : p <= prices[i]

max(prices) == CHOOSE p \in {prices[i] : i \in 1..Len(prices)} :
                   \A i \in 1..Len(prices) : p >= prices[i]

\* The prices and the locations get_statistics collects: apt.price > 0, and
\* "if apt.location", which is false for the empty string only (nan is a
\* float other than 0 and counts as true).
PricesOf(apartments) ==
    LET positive(apt) == apt.price.n > 0
        kept == SelectSeq(apartments, positive)
    IN  [i \in 1..Len(kept) |-> kept[i].price.n]

\* CacheManager.get_statistics on the loaded list; the average is kept as the
\* fraction sum / len, the locations as the set the list is built from.
get_statistics(apartments) ==
    IF apartments = <<>>
    THEN [total |-> 0, avg_price |-> <<0, 1>>, min_price |-> 0, max_price |-> 0,
          locations |-> {}]
    ELSE LET prices == PricesOf(apartments)
         IN  [total     |-> Len(apartments),
              avg_price |-> IF prices # <<>> THEN <<sum(prices), Len(prices)>>
                            ELSE <<0, 1>>,
              min_price |-> IF prices # <<>> THEN min(prices) ELSE 0,
              max_price |-> IF prices # <<>> THEN max(prices) ELSE 0,
              locations |-> {apartments[i].location :
                                i \in {j \in 1..Len(apartments) :
                                          apartments[j].location # ""}}]

\* Records with a price, known or 0, and a location, given or empty.
PricedRecords ==
    {[price |-> PyFloat(p), location |-> l] @@ parse_card(<<"a">>, 1) :
        p \in {0, 1, 3}, l \in {"", "x", "y"}}

\* get_statistics() on a store that holds the records of an earlier write, or
\* none.
GetStatistics ==
    /\ call.op = "none"
    /\ \E apartments \in SeqsUpTo(PricedRecords, MaxCards) :
        /\ cache_file' = write_apartments_priced(apartments)
        /\ call' = [NoCall EXCEPT !.op = "statistics", !.apartments = apartments,
                                  !.out = get_statistics(
                                              load_cached_apartments_priced(
                                                  write_apartments_priced(apartments)))]
    /\ UNCHANGED <<writer, runVars>>

NextStatistics == GetStatistics

SpecStatistics == Init /\ [][NextStatistics]_vars

\* The figures of a list of records: the known prices and the given locations.
KnownPrices(apartments) ==
    {i \in 1..Len(apartments) : apartments[i].price.n > 0}

\* C28: the statistics give the count of the persisted records, the average,
\* minimum and maximum of the prices above 0 (0 each when there is none) and
\* the set of the locations that are not empty.
C28_Statistics ==
    call.op = "statistics" =>
        LET R     == call.apartments
            known == KnownPrices(R)
        IN  /\ call.out.total = Len(R)
            /\ IF known = {}
               THEN /\ call.out.avg_price[1] = 0
                    /\ call.out.min_price = 0 /\ call.out.max_price = 0
               ELSE /\ call.out.avg_price[2] = Cardinality(known)
                    /\ call.out.avg_price[1] = sum([i \in 1..Len(R) |->
                                                   IF i \in known THEN R[i].price.n ELSE 0])
                    /\ \E i \in known : call.out.min_price = R[i].price.n
                    /\ \A i \in known : call.out.min_price <= R[i].price.n
                    /\ \E i \in known : call.out.max_price = R[i].price.n
                    /\ \A i \in known : call.out.max_price >= R[i].price.n
            /\ call.out.locations = {R[i].location : i \in 1..Len(R)} \ {""}

\* The count and the price figures are as C28 says, and the locations are the
\* non-empty ones, with nan added when a record has none.
C28_FiguresAndLocationsButNan ==
    call.op = "statistics" =>
        LET R     == call.apartments
            known == KnownPrices(R)
        IN  /\ call.out.total = Len(R)
            /\ known = {} =>
                   /\ call.out.avg_price[1] = 0
                   /\ call.out.min_price = 0 /\ call.out.max_price = 0
            /\ known # {} =>
                   /\ call.out.avg_price[2] = Cardinality(known)
                   /\ \A i \in known : call.out.min_price <= R[i].price.n
                   /\ \A i \in known : call.out.max_price >= R[i].price.n
            /\ call.out.locations \ {NaN} = {R[i].location : i \in 1..Len(R)} \ {""}
            /\ NaN \in call.out.locations <=> \E i \in 1..Len(R) : R[i].location = ""

\* ------------------------------------------------- the walk on a cyclic site
\* A site whose forward links may lead back, with pages that carry no card.
Cyclic == [Healthy EXCEPT !.blocks = {"none", "forward", "back"}, !.cards = 0]

\* One turn of the loop of scrape_all_pages on a page without cards: nothing
\* is appended, the callback is not called, current_url becomes the next url
\* and the loop test is made.  page_count is only ever compared with
\* max_pages, so it is counted up to MaxPages + 1 and held there.
WalkOn ==
    /\ pc = "fetching"
    /\ \E pagination \in Paginations(current_url, Cyclic) :
       LET next_url == extract_pagination_info(pagination).next_page_url
       IN  /\ current_url' = next_url
           /\ page_count' = IF next_url = None \/ page_count > MaxPages
                            THEN page_count ELSE page_count + 1
           /\ pc' = IF next_url # None /\ ~(max_pages # 0 /\ page_count + 1 > max_pages)
                    THEN "fetching" ELSE "walked"
    /\ UNCHANGED <<cache_file, writer, call, runArgs, all_apartments, walked,
                   error_at, pageVars, result, netVars>>

NextCycle == StartRun \/ WalkOn \/ PageError

\* Every fetch that is awaited returns its page or fails.
SpecCycle == Init /\ [][NextCycle]_vars /\ WF_vars(WalkOn \/ PageError)

\* C29: every walk that was started returns.
C29_WalkReturns == (pc = "fetching") ~> (pc = "walked")

\* Every walk with a page limit returns.
C29_LimitedWalkReturns == (pc = "fetching" /\ max_pages # 0) ~> (pc = "walked")

\* ------------------------------------------------- claims on the page callback
\* A step of the walk in which the callback is called, and one in which a
\* page is done without it.
CallbackStep ==
    pc \in {"fetching", "enriching"} =>
        /\ (call' # call \/ all_apartments' # all_apartments) =>
               /\ call'.op = "save" /\ call'.apartments # <<>>
               /\ all_apartments' = all_apartments \o call'.apartments
               /\ Len(walked') = Len(walked) + 1
               /\ PageRecords(walked'[Len(walked')], now) = call'.apartments
        /\ (walked' # walked /\ call' = call /\ all_apartments' = all_apartments) =>
               /\ Len(walked') = Len(walked) + 1
               /\ PageRecords(walked'[Len(walked')], now) = <<>>

====
